---- MODULE Spec2Model ----
(***************************************************************************)
(* Model of the sports-tracker front end core:                             *)
(*   - WebSocketProvider (WebSocketContext): connect / disconnect, the     *)
(*     socket handlers onopen / onmessage / onclose / onerror and the      *)
(*     reconnect timer, and sendMessage;                                   *)
(*   - SessionProvider (SessionContext): sessionReducer, the functions     *)
(*     that call fetch() and their continuations, updateSettings and       *)
(*     updateStats;                                                        *)
(*   - RealTimeTracker: the effect on lastMessage and                      *)
(*     handleActionDetected.                                               *)
(*                                                                         *)
(* React is modelled as it schedules the code: a setState call changes the *)
(* hook state at once (functional updates are applied in call order), the  *)
(* closures handed to consumers (connect, disconnect, handleActionDetected)*)
(* read the values of the last render, and a render is a step of its own   *)
(* that may come after several handlers have run (automatic batching).     *)
(* A closure created inside connect() keeps the reconnectAttempts value of *)
(* the render that created that connect (useCallback deps).  The other     *)
(* dependency of that useCallback, WS_URL, is not declared in the file:    *)
(* the model takes it to be a constant, so the callback is re-created only *)
(* when reconnectAttempts changes.                                         *)
(*                                                                         *)
(* Numbers are exact rationals <<n, d>> in lowest terms; floating-point    *)
(* rounding is not modelled.                                               *)
(***************************************************************************)
EXTENDS Integers, Sequences, FiniteSets

\* ---------------------------------------------------------------- bounds
MaxManual == 1       \* manual connect() calls per run
MaxSockets == 2      \* WebSocket objects alive at the same time
MaxTimers == 1       \* reconnect timers pending at the same time
AttemptCap == 6      \* the model stops counting reconnectAttempts here
MaxEvents == 3       \* inbound frames per run
ConfScale == 2       \* confidences are k/ConfScale, k in 0..ConfScale
MaxSends == 2        \* texts put on the wire per run
MaxRequests == 3     \* fetch() calls per run, the one of the mount effect included
MaxSessionId == 2    \* the server's sessions are 1..MaxSessionId

\* ------------------------------------------------------ program constants
MAX_RECONNECT_ATTEMPTS == 5
NORMAL_CLOSURE == 1000

NULL == 0
SockIds == 1..MaxSockets
\* the close codes of the runs: normal closure, going away (a clean close by
\* the server) and abnormal closure (no close frame, after an error event)
FailureCodes == {1006}
ServerCodes == {NORMAL_CLOSURE, 1001}
CloseCodes == ServerCodes \cup FailureCodes
NoError == "null"
\* the session id 'default' of a provider that finds no item in the storage;
\* the ids of the sessions are 1..MaxSessionId
DefaultSessionId == -1
ErrFailed == "Failed to connect to tracking service"

\* ------------------------------------------------------------- rationals
RECURSIVE GCD(_, _)
GCD(a, b) == IF b = 0 THEN a ELSE GCD(b, a % b)

Rat(n, d) == IF n = 0 THEN <<0, 1>> ELSE <<n \div GCD(n, d), d \div GCD(n, d)>>

RatOfInt(n) == <<n, 1>>

\* ------------------------------------------------------------------ state
VARIABLES
  phase,              \* "new" before the mount effects, then "mounted", "unmounted" after the cleanup
  sockets,            \* the WebSocket objects: readyState and what the handlers captured
  timers,             \* number of pending setTimeout callbacks
  socket,             \* useState: socket
  isConnected,        \* useState: isConnected
  reconnectAttempts,  \* useState: reconnectAttempts
  lastMessage,        \* useState: lastMessage
  connectionError,    \* useState: connectionError
  stats,              \* sessionReducer state.stats
  rendered,           \* the values the closures of the last render read
  effectPending,      \* the tracker's effect on [lastMessage] is scheduled
  msgCount,           \* frames received so far (identity of the parsed object)
  ingested,           \* history: the action_detected events received
  scheduledSinceOpen, \* history: timers scheduled since the last open / manual connect
  last,               \* history: the handler that ran last
  manualCalls,        \* manual connect() calls so far
  wire,               \* the texts socket.send() put on the wire, in order
  delivery,           \* history: recognised frames received and frames the tracker handled
  state,              \* useReducer: the sessionReducer state (stats is kept apart)
  requests,           \* the fetch() calls: the number issued, and those in flight per operation
  localStorage,       \* window.localStorage: the item 'current_session_id', NULL when absent
  sessionId,          \* useState: sessionId, the item as the first render read it
  trackerCalls,       \* the tracker's handleStart/StopTracking calls that await their response
  performanceData     \* RealTimeTracker useState: performanceData (the two session counters)

vars == <<phase, sockets, timers, socket, isConnected, reconnectAttempts,
          lastMessage, connectionError, stats, rendered, effectPending,
          msgCount, ingested, scheduledSinceOpen, last, manualCalls,
          wire, delivery, state, requests, localStorage, sessionId, trackerCalls, performanceData>>

initialStats ==
  [totalActions |-> 0, successfulActions |-> 0,
   successRate |-> RatOfInt(0), averageScore |-> RatOfInt(0)]

\* SessionContext initialState without its stats field; the numbers 0.7 and
\* 0.8 are the rationals 7/10 and 4/5
initialState ==
  [currentSession |-> NULL, sessions |-> <<>>, isTracking |-> FALSE,
   selectedSport |-> "basketball",
   settings |-> [feedbackTypes |-> <<"audio", "visual">>, sensitivity |-> <<7, 10>>,
                 minConfidence |-> <<4, 5>>, cameraSource |-> 0],
   loading |-> FALSE, error |-> NoError]

\* the SessionProvider functions that call fetch()
Operations ==
  {"createSession", "getSessions", "getSession", "startTracking", "stopTracking",
   "getAnalytics"}

ClosedSocket == [st |-> "closed", below |-> FALSE, url |-> NULL]

NoMessage == [id |-> 0, type |-> "none", successful |-> FALSE, confidence |-> 0]

Snapshot ==
  [reconnectAttempts |-> reconnectAttempts, socket |-> socket,
   isConnected |-> isConnected, lastMessage |-> lastMessage, stats |-> stats]

\* what the last handler did: its name, the close code, whether the counter
\* its closure captured had reached the maximum, whether it scheduled a
\* reconnect timer, and whether the closure had been requested by disconnect()
Event(op, code, atMax, sched, req) ==
  [op |-> op, code |-> code, atMax |-> atMax, sched |-> sched, req |-> req]

Init ==
  /\ phase = "new"
  /\ sockets = [s \in SockIds |-> ClosedSocket]
  /\ timers = 0
  /\ socket = NULL
  /\ isConnected = FALSE
  /\ reconnectAttempts = 0
  /\ lastMessage = NoMessage
  /\ connectionError = NoError
  /\ stats = initialStats
  /\ rendered = [reconnectAttempts |-> 0, socket |-> NULL, isConnected |-> FALSE,
                 lastMessage |-> NoMessage, stats |-> initialStats]
  /\ effectPending = FALSE
  /\ msgCount = 0
  /\ ingested = <<>>
  /\ scheduledSinceOpen = 0
  /\ last = Event("init", 0, FALSE, FALSE, FALSE)
  /\ manualCalls = 0
  /\ wire = <<>>
  /\ delivery = [arrived |-> 0, handled |-> 0]
  /\ state = initialState
  /\ requests = [issued |-> 0, pending |-> [op \in Operations |-> 0]]
  /\ localStorage = NULL
  /\ sessionId = DefaultSessionId
  /\ trackerCalls = <<>>
  /\ performanceData = [sessionActions |-> 0, sessionSuccesses |-> 0]

\* --------------------------------------------------------- sessionReducer
SET_LOADING(st, payload) == [st EXCEPT !.loading = payload]

\* a SET_ERROR case that also leaves the tracking run
SET_ERROR_StopsTracking(st, payload) ==
  [st EXCEPT !.error = payload, !.loading = FALSE, !.isTracking = FALSE]

SET_ERROR(st, payload) == [st EXCEPT !.error = payload, !.loading = FALSE]

\* a SET_SESSIONS case that keeps the cached entries after the server's
SET_SESSIONS_Merges(st, payload) ==
  [st EXCEPT !.sessions = payload \o @, !.loading = FALSE]

SET_SESSIONS(st, payload) == [st EXCEPT !.sessions = payload, !.loading = FALSE]

\* a SET_CURRENT_SESSION case that also puts the session on the list
SET_CURRENT_SESSION_AddsToList(st, payload) ==
  [st EXCEPT !.currentSession = payload, !.sessions = <<payload>> \o @]

SET_CURRENT_SESSION(st, payload) == [st EXCEPT !.currentSession = payload]

\* a CREATE_SESSION case that puts the new session at the end of the list
CREATE_SESSION_Appends(st, payload) ==
  [st EXCEPT !.currentSession = payload, !.sessions = @ \o <<payload>>]

CREATE_SESSION(st, payload) ==
  [st EXCEPT !.currentSession = payload, !.sessions = <<payload>> \o @]

\* a SET_TRACKING case that also forgets the current session
SET_TRACKING_DropsSession(st, payload) ==
  [st EXCEPT !.isTracking = payload, !.currentSession = NULL]

SET_TRACKING(st, payload) == [st EXCEPT !.isTracking = payload]

\* an UPDATE_SETTINGS case that takes the payload as the new settings
UPDATE_SETTINGS_Replaces(st, payload) == [st EXCEPT !.settings = payload]

\* settings: { ...state.settings, ...action.payload }
UPDATE_SETTINGS(st, payload) ==
  [st EXCEPT !.settings =
     [k \in DOMAIN @ \cup DOMAIN payload |->
        IF k \in DOMAIN payload THEN payload[k] ELSE @[k]]]

\* ------------------------------------------------- WebSocketProvider
Min(S) == CHOOSE x \in S : \A y \in S : x <= y

\* a WebSocket object can be forgotten once it is closed and neither the
\* state nor the last render's closures refer to it
FreeSlots ==
  {s \in SockIds : /\ sockets[s].st = "closed" /\ socket # s /\ rendered.socket # s
                   /\ \A i \in 1..Len(trackerCalls) : trackerCalls[i].socket # s}

\* the browser fires `error` and the following `close` in the same task:
\* nothing else runs between the two handlers
ErrorPending == \E s \in SockIds : sockets[s].st = "errored"

\* await fetch(...): the request leaves
fetch(op) ==
  /\ requests.issued < MaxRequests
  /\ requests' = [requests EXCEPT !.issued = @ + 1, !.pending[op] = @ + 1]

\* the response of one of the pending requests of op arrives
settle(op) ==
  /\ requests.pending[op] > 0
  /\ requests' = [requests EXCEPT !.pending[op] = @ - 1]

\* reconnectAttempts < MAX_RECONNECT_ATTEMPTS for the value n of the counter
BelowMax(n) == n < MAX_RECONNECT_ATTEMPTS

\* a getWsUrl that uses the id the first render read
getWsUrl_Cached == sessionId

\* getWsUrl(): localStorage.getItem('current_session_id') || sessionId, put
\* into `ws://localhost:8000/ws/${currentSessionId}`; the id stands for the URL
getWsUrl == IF localStorage # NULL THEN localStorage ELSE sessionId

\* connect(): new WebSocket(getWsUrl()) whose handlers close over the
\* reconnectAttempts of the render that created this connect. The handlers
\* read that value only in the test against MAX_RECONNECT_ATTEMPTS, and the
\* value never changes, so the socket keeps the outcome of the test: `below`
connect(below) ==
  /\ FreeSlots # {}
  /\ sockets' = [sockets EXCEPT ![Min(FreeSlots)] =
                   [st |-> "connecting", below |-> below, url |-> getWsUrl]]

\* something outside the providers stores the id of the current session
localStorage_setItem(id) ==
  /\ id # localStorage
  /\ localStorage' = id
  /\ last' = Event("setItem", 0, FALSE, FALSE, FALSE)
  /\ UNCHANGED <<phase, sockets, timers, socket, isConnected, reconnectAttempts,
                 lastMessage, connectionError, stats, rendered, effectPending,
                 msgCount, ingested, scheduledSinceOpen, manualCalls>>
  /\ UNCHANGED <<wire, delivery, state, requests, sessionId, trackerCalls, performanceData>>

\* ... or removes it
localStorage_removeItem ==
  /\ localStorage # NULL
  /\ localStorage' = NULL
  /\ last' = Event("removeItem", 0, FALSE, FALSE, FALSE)
  /\ UNCHANGED <<phase, sockets, timers, socket, isConnected, reconnectAttempts,
                 lastMessage, connectionError, stats, rendered, effectPending,
                 msgCount, ingested, scheduledSinceOpen, manualCalls>>
  /\ UNCHANGED <<wire, delivery, state, requests, sessionId, trackerCalls, performanceData>>

\* the first render and the mount effects of its commit, children first:
\* useState reads the stored id, then SessionProvider's getSessions() up to
\* its fetch and WebSocketProvider's connect()
Mount ==
  /\ phase = "new"
  /\ phase' = "mounted"
  /\ sessionId' = IF localStorage # NULL THEN localStorage ELSE DefaultSessionId
  /\ connect(BelowMax(rendered.reconnectAttempts))
  /\ state' = SET_LOADING(state, TRUE)
  /\ fetch("getSessions")
  /\ last' = Event("mount", 0, ~BelowMax(rendered.reconnectAttempts), FALSE, FALSE)
  /\ UNCHANGED <<timers, socket, isConnected, reconnectAttempts, lastMessage,
                 connectionError, stats, rendered, effectPending, msgCount,
                 ingested, scheduledSinceOpen, manualCalls>>
  /\ UNCHANGED <<wire, delivery, localStorage, trackerCalls, performanceData>>

\* a consumer calls the connect of the context value
ManualConnect ==
  /\ phase = "mounted"
  /\ ~ErrorPending
  /\ connect(BelowMax(rendered.reconnectAttempts))
  /\ manualCalls < MaxManual
  /\ manualCalls' = manualCalls + 1
  /\ scheduledSinceOpen' = 0
  /\ last' = Event("connect", 0, ~BelowMax(rendered.reconnectAttempts), FALSE, FALSE)
  /\ UNCHANGED <<phase, timers, socket, isConnected, reconnectAttempts,
                 lastMessage, connectionError, stats, rendered, effectPending,
                 msgCount, ingested>>
  /\ UNCHANGED <<wire, delivery, state, requests, localStorage, sessionId, trackerCalls, performanceData>>

\* an onopen handler that leaves the connection error in place
ws_onopen_KeepsError(s) ==
  /\ ~ErrorPending
  /\ sockets[s].st = "connecting"
  /\ sockets' = [sockets EXCEPT ![s].st = "open"]
  /\ isConnected' = TRUE
  /\ reconnectAttempts' = 0
  /\ socket' = s
  /\ scheduledSinceOpen' = 0
  /\ last' = Event("open", 0, FALSE, FALSE, FALSE)
  /\ UNCHANGED <<phase, timers, lastMessage, stats, rendered, effectPending,
                 msgCount, ingested, manualCalls, connectionError>>
  /\ UNCHANGED <<wire, delivery, state, requests, localStorage, sessionId, trackerCalls, performanceData>>

ws_onopen(s) ==
  /\ ~ErrorPending
  /\ sockets[s].st = "connecting"
  /\ sockets' = [sockets EXCEPT ![s].st = "open"]
  /\ isConnected' = TRUE
  /\ reconnectAttempts' = 0
  /\ connectionError' = NoError
  /\ socket' = s
  /\ scheduledSinceOpen' = 0
  /\ last' = Event("open", 0, FALSE, FALSE, FALSE)
  /\ UNCHANGED <<phase, timers, lastMessage, stats, rendered, effectPending,
                 msgCount, ingested, manualCalls>>
  /\ UNCHANGED <<wire, delivery, state, requests, localStorage, sessionId, trackerCalls, performanceData>>

\* an onerror handler that also marks the provider as not connected
ws_onerror_Disconnects(s) ==
  /\ ~ErrorPending
  /\ sockets[s].st \in {"connecting", "open"}
  /\ sockets' = [sockets EXCEPT ![s].st = "errored"]
  /\ connectionError' = ErrFailed
  /\ isConnected' = FALSE
  /\ last' = Event("error", 0, FALSE, FALSE, FALSE)
  /\ UNCHANGED <<phase, timers, socket, reconnectAttempts,
                 lastMessage, stats, rendered, effectPending, msgCount,
                 ingested, scheduledSinceOpen, manualCalls>>
  /\ UNCHANGED <<wire, delivery, state, requests, localStorage, sessionId, trackerCalls, performanceData>>

ws_onerror(s) ==
  /\ ~ErrorPending
  /\ sockets[s].st \in {"connecting", "open"}
  /\ sockets' = [sockets EXCEPT ![s].st = "errored"]
  /\ connectionError' = ErrFailed
  /\ last' = Event("error", 0, FALSE, FALSE, FALSE)
  /\ UNCHANGED <<phase, timers, socket, isConnected, reconnectAttempts,
                 lastMessage, stats, rendered, effectPending, msgCount,
                 ingested, scheduledSinceOpen, manualCalls>>
  /\ UNCHANGED <<wire, delivery, state, requests, localStorage, sessionId, trackerCalls, performanceData>>

\* the close codes the transport can report for a socket in state st
CodesFor(st) ==
  CASE st = "errored" -> FailureCodes
    [] st = "closing" -> {NORMAL_CLOSURE}
    [] st = "open" -> ServerCodes
    [] OTHER -> {}

\* a history counter stops at `top`: the properties only ask whether it got there
CountUpTo(n, top) == IF n < top THEN n + 1 ELSE n

\* the same test without the close code: a normal closure would be retried too
ShouldReconnectAnyCode(code, below) == below

\* event.code !== 1000 && reconnectAttempts < MAX_RECONNECT_ATTEMPTS
ShouldReconnect(code, below) == code # NORMAL_CLOSURE /\ below

ws_onclose(s, code) ==
  /\ code \in CodesFor(sockets[s].st)
  /\ ErrorPending => sockets[s].st = "errored"
  /\ isConnected' = FALSE
  /\ socket' = NULL
  /\ sockets' = [sockets EXCEPT ![s] = ClosedSocket]
  /\ IF ShouldReconnect(code, sockets[s].below)
       THEN /\ timers < MaxTimers
            /\ timers' = timers + 1
            /\ scheduledSinceOpen' = CountUpTo(scheduledSinceOpen, MAX_RECONNECT_ATTEMPTS + 1)
       ELSE UNCHANGED <<timers, scheduledSinceOpen>>
  /\ last' = Event("close", code, ~sockets[s].below, timers' # timers,
                   sockets[s].st = "closing")
  /\ UNCHANGED <<phase, reconnectAttempts, lastMessage, connectionError, stats,
                 rendered, effectPending, msgCount, ingested, manualCalls>>
  /\ UNCHANGED <<wire, delivery, state, requests, localStorage, sessionId, trackerCalls, performanceData>>

\* setTimeout(() => { setReconnectAttempts(prev => prev + 1); connect(); }, RECONNECT_DELAY)
\* a timer exists only for a closure whose test was true, and it calls the
\* connect of that same closure
TimerFire ==
  /\ ~ErrorPending
  /\ timers > 0
  /\ reconnectAttempts < AttemptCap
  /\ timers' = timers - 1
  /\ reconnectAttempts' = reconnectAttempts + 1
  /\ connect(TRUE)
  /\ last' = Event("timer", 0, FALSE, FALSE, FALSE)
  /\ UNCHANGED <<phase, socket, isConnected, lastMessage, connectionError, stats,
                 rendered, effectPending, msgCount, ingested, scheduledSinceOpen,
                 manualCalls>>
  /\ UNCHANGED <<wire, delivery, state, requests, localStorage, sessionId, trackerCalls, performanceData>>

\* disconnect(): if (socket) socket.close(1000, 'Manual disconnect')
disconnect ==
  /\ phase = "mounted"
  /\ ~ErrorPending
  /\ IF rendered.socket # NULL /\ sockets[rendered.socket].st = "open"
       THEN sockets' = [sockets EXCEPT ![rendered.socket].st = "closing"]
       ELSE UNCHANGED sockets
  /\ last' = Event("disconnect", NORMAL_CLOSURE, FALSE, FALSE, FALSE)
  /\ UNCHANGED <<phase, timers, socket, isConnected, reconnectAttempts,
                 lastMessage, connectionError, stats, rendered, effectPending,
                 msgCount, ingested, scheduledSinceOpen, manualCalls>>
  /\ UNCHANGED <<wire, delivery, state, requests, localStorage, sessionId, trackerCalls, performanceData>>

\* the socket the cleanup of the mount effect closes over: the effect has no
\* dependencies, so its cleanup is the closure of the first render, where
\* socket is the initial value of useState(null)
CleanupSocket == NULL

\* the provider is unmounted: the cleanup of the mount effect runs,
\* if (socket) socket.close().  Nothing keeps the ids of the timers, and the
\* handlers of the sockets and the timer callbacks stay installed: they
\* still run afterwards, though nothing is rendered any more
Unmount ==
  /\ phase = "mounted"
  /\ ~ErrorPending
  /\ phase' = "unmounted"
  /\ IF CleanupSocket # NULL /\ sockets[CleanupSocket].st \in {"connecting", "open"}
       THEN sockets' = [sockets EXCEPT ![CleanupSocket].st = "closing"]
       ELSE UNCHANGED sockets
  /\ last' = Event("unmount", 0, FALSE, FALSE, FALSE)
  /\ UNCHANGED <<timers, socket, isConnected, reconnectAttempts,
                 lastMessage, connectionError, stats, rendered, effectPending,
                 msgCount, ingested, scheduledSinceOpen, manualCalls>>
  /\ UNCHANGED <<wire, delivery, state, requests, localStorage, sessionId, trackerCalls, performanceData>>

\* a render of the tree: the closures now read the current state, and the
\* tracker's effect is scheduled when lastMessage is a new object
Render ==
  /\ phase # "unmounted"
  /\ ~ErrorPending
  /\ ~effectPending
  /\ rendered # Snapshot
  /\ rendered' = Snapshot
  /\ effectPending' = (lastMessage.id # rendered.lastMessage.id)
  /\ last' = Event("render", 0, FALSE, FALSE, FALSE)
  /\ UNCHANGED <<phase, sockets, timers, socket, isConnected, reconnectAttempts,
                 lastMessage, connectionError, stats, msgCount, ingested,
                 scheduledSinceOpen, manualCalls>>
  /\ UNCHANGED <<wire, delivery, state, requests, localStorage, sessionId, trackerCalls, performanceData>>

\* ------------------------------------------------------------------ JSON
\* A JSON text is the sequence of its <<name, value>> members; an object is
\* a record.  The order in which the object literals of the program list
\* their properties:
PropertyOrder == <<"type", "action", "successful", "confidence">>

PropertiesOf(obj) == SelectSeq(PropertyOrder, LAMBDA k : k \in DOMAIN obj)

\* a serialiser that stops after the first member
JSON_stringify_FirstMember(obj) ==
  [i \in 1..1 |-> <<PropertiesOf(obj)[i], obj[PropertiesOf(obj)[i]]>>]

\* JSON.stringify(obj): the members in property order
JSON_stringify(obj) ==
  [i \in 1..Len(PropertiesOf(obj)) |-> <<PropertiesOf(obj)[i], obj[PropertiesOf(obj)[i]]>>]

\* JSON.parse throws a SyntaxError on a text with a member that has no value
SyntaxError(text) == \E i \in DOMAIN text : Len(text[i]) # 2

\* JSON.parse(text) for a text that parses: a later member with the same
\* name overrides an earlier one
JSON_parse(text) ==
  [k \in {text[i][1] : i \in DOMAIN text} |->
     text[CHOOSE i \in DOMAIN text :
            text[i][1] = k /\ \A j \in DOMAIN text : text[j][1] = k => j <= i][2]]

\* ------------------------------------------------------------ sendMessage
\* the commands the tracker sends: { type: 'camera_control', action: 'start' | 'stop' }
OutboundCommands ==
  {[type |-> "camera_control", action |-> a] : a \in {"start", "stop"}}

\* what a sendMessage call did: its argument, its return value, and the
\* length of the wire before and after it
SendEvent(message, ok, before, after) ==
  [op |-> "send", message |-> message, ok |-> ok, before |-> before, after |-> after]

\* socket.send(text): the browser transmits the text when the socket is open
\* and discards it, without throwing, when the socket is closing or closed
socket_send(s, text) ==
  wire' = IF sockets[s].st = "open" THEN Append(wire, text) ELSE wire

\* sendMessage(message), with the socket and isConnected of the render the
\* caller's closure belongs to
sendMessage(message) ==
  /\ phase = "mounted"
  /\ ~ErrorPending
  /\ Len(wire) < MaxSends
  /\ IF rendered.socket # NULL /\ rendered.isConnected
       THEN /\ socket_send(rendered.socket, JSON_stringify(message))
            /\ last' = SendEvent(message, TRUE, Len(wire), Len(wire'))
       ELSE /\ UNCHANGED wire
            /\ last' = SendEvent(message, FALSE, Len(wire), Len(wire))
  /\ UNCHANGED <<phase, sockets, timers, socket, isConnected, reconnectAttempts,
                 lastMessage, connectionError, stats, rendered, effectPending,
                 msgCount, ingested, scheduledSinceOpen, manualCalls,
                 delivery, state, requests, localStorage, sessionId, trackerCalls, performanceData>>

\* ------------------------------------- inbound frames and the statistics
\* the parsed frames of the runs: every action_detected payload, and one
\* frame of another type
ActionFrames ==
  {[type |-> "action_detected", successful |-> b, confidence |-> c] :
     b \in BOOLEAN, c \in 0..ConfScale}

Frames ==
  ActionFrames \cup {[type |-> "camera_status", successful |-> FALSE, confidence |-> 0]}

\* the texts of those frames
FrameTexts == {JSON_stringify(f) : f \in Frames}

\* the message types the subscribers' switch statements name
RecognizedTypes == {"action_detected", "feedback", "camera_status", "tracking_status"}

\* the frames of the runs that look at the dispatch on the type: one
\* successful action, one frame of another recognised type, and one frame
\* of a type no subscriber knows
DispatchFrames ==
  {[type |-> "action_detected", successful |-> TRUE, confidence |-> ConfScale],
   [type |-> "tracking_status", successful |-> FALSE, confidence |-> 0],
   [type |-> "pong", successful |-> FALSE, confidence |-> 0]}

\* a text cut off after a member name
TruncatedText == <<<<"type", "action_detected">>, <<"successful">>>>

InboundTexts == {JSON_stringify(f) : f \in DispatchFrames} \cup {TruncatedText}

\* the object a parsed text becomes; id is its identity
Parsed(data, id) ==
  [id |-> id, type |-> JSON_parse(data).type,
   successful |-> JSON_parse(data).successful,
   confidence |-> JSON_parse(data).confidence]

\* a handler whose catch branch publishes null
setLastMessage_NullOnError(data, old, id) ==
  IF SyntaxError(data) THEN NoMessage ELSE Parsed(data, id)

\* try { setLastMessage(JSON.parse(event.data)) } catch { console.error(...) }
setLastMessage(data, old, id) ==
  IF SyntaxError(data) THEN old ELSE Parsed(data, id)

\* ws.onmessage: every parsed frame is a new object, whatever its type
ws_onmessage(s, data) ==
  /\ ~ErrorPending
  /\ sockets[s].st \in {"open", "closing"}
  /\ msgCount < MaxEvents
  /\ lastMessage' = setLastMessage(data, lastMessage, msgCount + 1)
  /\ IF SyntaxError(data)
       THEN /\ UNCHANGED <<msgCount, ingested, delivery>>
            /\ last' = Event("parse_error", 0, FALSE, FALSE, FALSE)
       ELSE /\ msgCount' = msgCount + 1
            /\ ingested' = IF JSON_parse(data).type = "action_detected"
                             THEN Append(ingested,
                                         [successful |-> JSON_parse(data).successful,
                                          confidence |-> JSON_parse(data).confidence])
                             ELSE ingested
            /\ delivery' = IF JSON_parse(data).type \in RecognizedTypes
                             THEN [delivery EXCEPT !.arrived = @ + 1]
                             ELSE delivery
            /\ last' = Event("message", 0, FALSE, FALSE, FALSE)
  /\ UNCHANGED <<phase, sockets, timers, socket, isConnected, reconnectAttempts,
                 connectionError, stats, rendered, effectPending,
                 scheduledSinceOpen, manualCalls>>
  /\ UNCHANGED <<wire, state, requests, localStorage, sessionId, trackerCalls, performanceData>>

\* (a * total + c / ConfScale) / newTotal for the rational a
NextAverage(a, total, c, newTotal) ==
  Rat(a[1] * total * ConfScale + c * a[2], a[2] * ConfScale * newTotal)

\* the payload with the rate computed before the new success is counted
StatsPayloadStaleRate(st, successful, confidence) ==
  [totalActions |-> st.totalActions + 1,
   successfulActions |-> st.successfulActions + (IF successful THEN 1 ELSE 0),
   successRate |-> Rat(st.successfulActions * 100, st.totalActions + 1),
   averageScore |-> NextAverage(st.averageScore, st.totalActions, confidence,
                                st.totalActions + 1)]

\* a payload whose rate divides the new successes by the previous total
StatsPayloadRateOverOldTotal(st, successful, confidence) ==
  [totalActions |-> st.totalActions + 1,
   successfulActions |-> st.successfulActions + (IF successful THEN 1 ELSE 0),
   successRate |-> Rat((st.successfulActions + (IF successful THEN 1 ELSE 0)) * 100,
                       IF st.totalActions = 0 THEN 1 ELSE st.totalActions),
   averageScore |-> NextAverage(st.averageScore, st.totalActions, confidence,
                                st.totalActions + 1)]

\* the object handleActionDetected passes to updateStats, computed from the
\* `stats` of the render the handler belongs to
StatsPayload(st, successful, confidence) ==
  [totalActions |-> st.totalActions + 1,
   successfulActions |-> st.successfulActions + (IF successful THEN 1 ELSE 0),
   successRate |-> Rat((st.successfulActions + (IF successful THEN 1 ELSE 0)) * 100,
                       st.totalActions + 1),
   averageScore |-> NextAverage(st.averageScore, st.totalActions, confidence,
                                st.totalActions + 1)]

\* a reducer that commits the two counters and leaves the derived fields
UPDATE_STATS_CountersOnly(old, payload) ==
  [totalActions |-> payload.totalActions,
   successfulActions |-> payload.successfulActions,
   successRate |-> old.successRate,
   averageScore |-> old.averageScore]

\* sessionReducer, case 'UPDATE_STATS': { ...state.stats, ...action.payload }
UPDATE_STATS(old, payload) ==
  [totalActions |-> IF "totalActions" \in DOMAIN payload
                      THEN payload.totalActions ELSE old.totalActions,
   successfulActions |-> IF "successfulActions" \in DOMAIN payload
                           THEN payload.successfulActions ELSE old.successfulActions,
   successRate |-> IF "successRate" \in DOMAIN payload
                     THEN payload.successRate ELSE old.successRate,
   averageScore |-> IF "averageScore" \in DOMAIN payload
                      THEN payload.averageScore ELSE old.averageScore]

\* an updater that counts the successful events only
setPerformanceData_SuccessesOnly(prev, successful) ==
  [sessionActions |-> prev.sessionActions + (IF successful THEN 1 ELSE 0),
   sessionSuccesses |-> prev.sessionSuccesses + (IF successful THEN 1 ELSE 0)]

\* the updater handleActionDetected passes to setPerformanceData; streak and
\* lastAction are left out of the model
setPerformanceData(prev, successful) ==
  [sessionActions |-> prev.sessionActions + 1,
   sessionSuccesses |-> prev.sessionSuccesses + (IF successful THEN 1 ELSE 0)]

\* the tracker's useEffect on [lastMessage], run with the closures of the
\* render that scheduled it
TrackerEffect ==
  /\ ~ErrorPending
  /\ effectPending
  /\ effectPending' = FALSE
  /\ IF rendered.lastMessage.type = "action_detected"
       THEN stats' = UPDATE_STATS(stats,
                       StatsPayload(rendered.stats, rendered.lastMessage.successful,
                                    rendered.lastMessage.confidence))
       ELSE UNCHANGED stats
  /\ performanceData' =
       IF rendered.lastMessage.type = "action_detected"
         THEN setPerformanceData(performanceData, rendered.lastMessage.successful)
         ELSE performanceData
  /\ delivery' = IF rendered.lastMessage.type \in RecognizedTypes
                    THEN [delivery EXCEPT !.handled = @ + 1]
                    ELSE delivery
  /\ last' = Event("effect", 0, FALSE, FALSE, FALSE)
  /\ UNCHANGED <<phase, sockets, timers, socket, isConnected, reconnectAttempts,
                 lastMessage, connectionError, rendered, msgCount, ingested,
                 scheduledSinceOpen, manualCalls>>
  /\ UNCHANGED <<wire, state, requests, localStorage, sessionId, trackerCalls>>

\* -------------------------------------------------------- SessionProvider
\* An async function of the provider is two steps: the call, up to its
\* fetch(), and the continuation that runs when the response arrives.
providerVars ==
  <<phase, sockets, timers, socket, isConnected, reconnectAttempts, lastMessage,
    connectionError, stats, rendered, effectPending, msgCount, ingested,
    scheduledSinceOpen, manualCalls, wire, delivery, localStorage, sessionId, trackerCalls, performanceData>>

SessionIds == 1..MaxSessionId

\* the lists GET /api/sessions can return
ServerLists ==
  {<<>>} \cup {<<i>> : i \in SessionIds}
         \cup {p \in SessionIds \X SessionIds : p[1] # p[2]}

\* the message of the Error each function throws on a response that is not ok
ErrorMessage(op) ==
  CASE op = "createSession" -> "Failed to create session"
    [] op = "getSessions" -> "Failed to fetch sessions"
    [] op = "getSession" -> "Failed to fetch session"
    [] op = "startTracking" -> "Failed to start tracking"
    [] op = "stopTracking" -> "Failed to stop tracking"
    [] op = "getAnalytics" -> "Failed to fetch analytics"

\* what a call of a provider function did: its name and the number of
\* requests it issued
CallEvent(op, fetches) == [op |-> op, fetches |-> fetches]

\* the continuation of op ran, with response.ok = ok; when the response is not
\* ok the catch block of the function throws the error again
ResponseEvent(op, ok) == [op |-> "response", of |-> op, ok |-> ok, rethrown |-> ~ok]

createSession ==
  /\ phase = "mounted"
  /\ state' = SET_LOADING(state, TRUE)
  /\ fetch("createSession")
  /\ last' = CallEvent("createSession", 1)
  /\ UNCHANGED providerVars

\* a continuation that forgets the current session when the request failed
createSession_response_DropsCurrent(ok, session) ==
  /\ settle("createSession")
  /\ state' = IF ok THEN CREATE_SESSION(state, session)
              ELSE SET_CURRENT_SESSION(SET_ERROR(state, ErrorMessage("createSession")), NULL)
  /\ last' = ResponseEvent("createSession", ok)
  /\ UNCHANGED providerVars

createSession_response(ok, session) ==
  /\ settle("createSession")
  /\ state' = IF ok THEN CREATE_SESSION(state, session)
              ELSE SET_ERROR(state, ErrorMessage("createSession"))
  /\ last' = ResponseEvent("createSession", ok)
  /\ UNCHANGED providerVars

getSessions ==
  /\ phase = "mounted"
  /\ state' = SET_LOADING(state, TRUE)
  /\ fetch("getSessions")
  /\ last' = CallEvent("getSessions", 1)
  /\ UNCHANGED providerVars

getSessions_response(ok, list) ==
  /\ settle("getSessions")
  /\ state' = IF ok THEN SET_SESSIONS(state, list)
              ELSE SET_ERROR(state, ErrorMessage("getSessions"))
  /\ last' = ResponseEvent("getSessions", ok)
  /\ UNCHANGED providerVars

getSession ==
  /\ phase = "mounted"
  /\ state' = SET_LOADING(state, TRUE)
  /\ fetch("getSession")
  /\ last' = CallEvent("getSession", 1)
  /\ UNCHANGED providerVars

\* a continuation that asks again when the request failed
getSession_response_Retries(ok, session) ==
  /\ requests.pending["getSession"] > 0
  /\ IF ok
       THEN /\ settle("getSession")
            /\ state' = SET_CURRENT_SESSION(state, session)
       ELSE /\ requests.issued < MaxRequests
            /\ requests' = [requests EXCEPT !.issued = @ + 1]
            /\ state' = SET_ERROR(state, ErrorMessage("getSession"))
  /\ last' = ResponseEvent("getSession", ok)
  /\ UNCHANGED providerVars

getSession_response(ok, session) ==
  /\ settle("getSession")
  /\ state' = IF ok THEN SET_CURRENT_SESSION(state, session)
              ELSE SET_ERROR(state, ErrorMessage("getSession"))
  /\ last' = ResponseEvent("getSession", ok)
  /\ UNCHANGED providerVars

\* the requests of op that the tracker's handlers issued and still await
TrackerPending(op) ==
  Cardinality({i \in 1..Len(trackerCalls) : trackerCalls[i].op = op})

\* startTracking(): no test comes before the fetch
startTracking ==
  /\ phase = "mounted"
  /\ fetch("startTracking")
  /\ last' = CallEvent("startTracking", 1)
  /\ UNCHANGED <<providerVars, state>>

startTracking_response(ok) ==
  /\ requests.pending["startTracking"] > TrackerPending("startTracking")
  /\ settle("startTracking")
  /\ state' = IF ok THEN SET_TRACKING(state, TRUE)
              ELSE SET_ERROR(state, ErrorMessage("startTracking"))
  /\ last' = ResponseEvent("startTracking", ok)
  /\ UNCHANGED providerVars

stopTracking ==
  /\ phase = "mounted"
  /\ fetch("stopTracking")
  /\ last' = CallEvent("stopTracking", 1)
  /\ UNCHANGED <<providerVars, state>>

stopTracking_response(ok) ==
  /\ requests.pending["stopTracking"] > TrackerPending("stopTracking")
  /\ settle("stopTracking")
  /\ state' = IF ok THEN SET_TRACKING(state, FALSE)
              ELSE SET_ERROR(state, ErrorMessage("stopTracking"))
  /\ last' = ResponseEvent("stopTracking", ok)
  /\ UNCHANGED providerVars

\* ---------------------------------- RealTimeTracker: the tracking buttons
RemoveAt(seq, i) == SubSeq(seq, 1, i - 1) \o SubSeq(seq, i + 1, Len(seq))

\* the handler keeps the sendMessage of the render it was created in, which
\* reads the socket and isConnected of that render
TrackerCall(op) ==
  [op |-> op, socket |-> rendered.socket, isConnected |-> rendered.isConnected]

\* sendMessage(message) as the closure c calls it after the await
sendFromClosure(c, message) ==
  IF c.socket # NULL /\ c.isConnected
    THEN socket_send(c.socket, JSON_stringify(message))
    ELSE UNCHANGED wire

trackerVars ==
  <<phase, sockets, timers, socket, isConnected, reconnectAttempts, lastMessage,
    connectionError, stats, rendered, effectPending, msgCount, ingested,
    scheduledSinceOpen, manualCalls, delivery, localStorage, sessionId,
    performanceData>>

\* the Start Tracking button, shown while not tracking and enabled when
\* connected with a current session: handleStartTracking up to the fetch of
\* startTracking()
handleStartTracking ==
  /\ phase = "mounted"
  /\ ~ErrorPending
  /\ ~state.isTracking
  /\ rendered.isConnected
  /\ state.currentSession # NULL
  /\ fetch("startTracking")
  /\ trackerCalls' = Append(trackerCalls, TrackerCall("startTracking"))
  /\ last' = CallEvent("handleStartTracking", 1)
  /\ UNCHANGED <<trackerVars, wire, state>>

\* a continuation that sends the command whatever the response was
handleStartTracking_resume_SendsAnyway(i, ok) ==
  /\ ~ErrorPending
  /\ i \in 1..Len(trackerCalls)
  /\ trackerCalls[i].op = "startTracking"
  /\ settle("startTracking")
  /\ state' = IF ok THEN SET_TRACKING(state, TRUE)
              ELSE SET_ERROR(state, ErrorMessage("startTracking"))
  /\ sendFromClosure(trackerCalls[i], [type |-> "camera_control", action |-> "start"])
  /\ trackerCalls' = RemoveAt(trackerCalls, i)
  /\ last' = ResponseEvent("handleStartTracking", ok)
  /\ UNCHANGED trackerVars

\* the response arrives: the continuation of startTracking(), then the rest
\* of handleStartTracking, sendMessage when nothing was thrown
handleStartTracking_resume(i, ok) ==
  /\ ~ErrorPending
  /\ i \in 1..Len(trackerCalls)
  /\ trackerCalls[i].op = "startTracking"
  /\ settle("startTracking")
  /\ state' = IF ok THEN SET_TRACKING(state, TRUE)
              ELSE SET_ERROR(state, ErrorMessage("startTracking"))
  /\ IF ok
       THEN sendFromClosure(trackerCalls[i], [type |-> "camera_control", action |-> "start"])
       ELSE UNCHANGED wire
  /\ trackerCalls' = RemoveAt(trackerCalls, i)
  /\ last' = ResponseEvent("handleStartTracking", ok)
  /\ UNCHANGED trackerVars

\* the Stop Tracking button, shown while tracking
handleStopTracking ==
  /\ phase = "mounted"
  /\ ~ErrorPending
  /\ state.isTracking
  /\ fetch("stopTracking")
  /\ trackerCalls' = Append(trackerCalls, TrackerCall("stopTracking"))
  /\ last' = CallEvent("handleStopTracking", 1)
  /\ UNCHANGED <<trackerVars, wire, state>>

handleStopTracking_resume(i, ok) ==
  /\ ~ErrorPending
  /\ i \in 1..Len(trackerCalls)
  /\ trackerCalls[i].op = "stopTracking"
  /\ settle("stopTracking")
  /\ state' = IF ok THEN SET_TRACKING(state, FALSE)
              ELSE SET_ERROR(state, ErrorMessage("stopTracking"))
  /\ IF ok
       THEN sendFromClosure(trackerCalls[i], [type |-> "camera_control", action |-> "stop"])
       ELSE UNCHANGED wire
  /\ trackerCalls' = RemoveAt(trackerCalls, i)
  /\ last' = ResponseEvent("handleStopTracking", ok)
  /\ UNCHANGED trackerVars

\* getAnalytics(sessionId): no SET_LOADING before the fetch
getAnalytics ==
  /\ phase = "mounted"
  /\ fetch("getAnalytics")
  /\ last' = CallEvent("getAnalytics", 1)
  /\ UNCHANGED <<providerVars, state>>

\* the analytics are returned to the caller and not kept in the store
getAnalytics_response(ok) ==
  /\ settle("getAnalytics")
  /\ state' = IF ok THEN state
              ELSE SET_ERROR(state, ErrorMessage("getAnalytics"))
  /\ last' = ResponseEvent("getAnalytics", ok)
  /\ UNCHANGED providerVars

\* the partial settings of the runs
SettingsPartials == {[sensitivity |-> <<1, 2>>]}

\* partial settings as the settings panel builds them: one key, several
\* keys, an array value, and keys the initial settings do not have
MergePartials ==
  {[sensitivity |-> <<1, 2>>],
   [minConfidence |-> <<1, 2>>, cameraSource |-> 1],
   [feedbackTypes |-> <<"audio">>],
   [fps |-> 30],
   [sensitivity |-> <<9, 10>>, fps |-> 60]}

updateSettings(newSettings) ==
  /\ phase = "mounted"
  /\ state' = UPDATE_SETTINGS(state, newSettings)
  /\ state' # state
  /\ last' = CallEvent("updateSettings", 0)
  /\ UNCHANGED <<providerVars, requests>>

clearError ==
  /\ phase = "mounted"
  /\ state.error # NoError
  /\ state' = SET_ERROR(state, NoError)
  /\ last' = CallEvent("clearError", 0)
  /\ UNCHANGED <<providerVars, requests>>

StatsNext ==
  \/ Mount
  \/ \E s \in SockIds : ws_onopen(s)
  \/ \E s \in SockIds, data \in FrameTexts : ws_onmessage(s, data)
  \/ Render
  \/ TrackerEffect

StatsSpec == Init /\ [][StatsNext]_vars

\* the stream with a frame of an unknown type and a text that does not parse
InboundNext ==
  \/ Mount
  \/ \E s \in SockIds : ws_onopen(s)
  \/ \E s \in SockIds, data \in InboundTexts : ws_onmessage(s, data)
  \/ Render
  \/ TrackerEffect

InboundSpec == Init /\ [][InboundNext]_vars

\* the tracking run over the connection of the mount: one kind of action
\* frame, the tracking calls, getSession and updateSettings.  The response
\* to the getSessions() of the mount effect stays pending in these runs.
TrackFrames ==
  {[type |-> "action_detected", successful |-> TRUE, confidence |-> ConfScale]}

TrackNext ==
  \/ Mount
  \/ \E s \in SockIds : ws_onopen(s)
  \/ \E s \in SockIds : ws_onerror(s)
  \/ \E s \in SockIds, code \in CloseCodes : ws_onclose(s, code)
  \/ \E s \in SockIds, f \in TrackFrames : ws_onmessage(s, JSON_stringify(f))
  \/ Render
  \/ TrackerEffect
  \/ getSession
  \/ \E ok \in BOOLEAN, session \in SessionIds : getSession_response(ok, session)
  \/ startTracking
  \/ \E ok \in BOOLEAN : startTracking_response(ok)
  \/ stopTracking
  \/ \E ok \in BOOLEAN : stopTracking_response(ok)
  \/ \E newSettings \in SettingsPartials : updateSettings(newSettings)

TrackSpec == Init /\ [][TrackNext]_vars

\* the settings of the store while the list of the mount effect loads
SettingsNext ==
  \/ Mount
  \/ \E ok \in BOOLEAN, list \in ServerLists : getSessions_response(ok, list)
  \/ \E newSettings \in MergePartials : updateSettings(newSettings)

SettingsSpec == Init /\ [][SettingsNext]_vars

\* sessions are created while the list of the mount effect loads: the only
\* getSessions() of these runs is the one of the mount effect, issued before
\* any createSession completes
CreateNext ==
  \/ Mount
  \/ createSession
  \/ \E ok \in BOOLEAN, session \in SessionIds : createSession_response(ok, session)
  \/ \E ok \in BOOLEAN, list \in ServerLists : getSessions_response(ok, list)
  \/ clearError

CreateSpec == Init /\ [][CreateNext]_vars

\* the tracking buttons of the tracker view over the connection of the mount,
\* next to the toggle of the navigation bar, which calls startTracking()
\* and sends nothing
CameraNext ==
  \/ Mount
  \/ \E s \in SockIds : ws_onopen(s)
  \/ \E s \in SockIds, code \in ServerCodes : ws_onclose(s, code)
  \/ Render
  \/ getSession
  \/ \E ok \in BOOLEAN, session \in SessionIds : getSession_response(ok, session)
  \/ startTracking
  \/ \E ok \in BOOLEAN : startTracking_response(ok)
  \/ handleStartTracking
  \/ \E i \in 1..MaxRequests, ok \in BOOLEAN : handleStartTracking_resume(i, ok)
  \/ handleStopTracking
  \/ \E i \in 1..MaxRequests, ok \in BOOLEAN : handleStopTracking_resume(i, ok)

CameraSpec == Init /\ [][CameraNext]_vars

\* the store alone: every function of the SessionProvider and the responses
\* of the server, without the stream
StoreNext ==
  \/ Mount
  \/ createSession
  \/ \E ok \in BOOLEAN, session \in SessionIds : createSession_response(ok, session)
  \/ getSessions
  \/ \E ok \in BOOLEAN, list \in ServerLists : getSessions_response(ok, list)
  \/ getSession
  \/ \E ok \in BOOLEAN, session \in SessionIds : getSession_response(ok, session)
  \/ startTracking
  \/ \E ok \in BOOLEAN : startTracking_response(ok)
  \/ stopTracking
  \/ \E ok \in BOOLEAN : stopTracking_response(ok)
  \/ \E newSettings \in SettingsPartials : updateSettings(newSettings)
  \/ clearError
  \/ getAnalytics
  \/ \E ok \in BOOLEAN : getAnalytics_response(ok)

StoreSpec == Init /\ [][StoreNext]_vars

\* the connection of a provider that is mounted and later unmounted
TeardownNext ==
  \/ Mount
  \/ \E s \in SockIds : ws_onopen(s)
  \/ \E s \in SockIds : ws_onerror(s)
  \/ \E s \in SockIds, code \in CloseCodes : ws_onclose(s, code)
  \/ TimerFire
  \/ Render
  \/ Unmount

TeardownSpec == Init /\ [][TeardownNext]_vars

\* the connection while the stored session id changes
EndpointNext ==
  \/ Mount
  \/ ManualConnect
  \/ \E s \in SockIds : ws_onopen(s)
  \/ \E s \in SockIds, code \in CloseCodes : ws_onclose(s, code)
  \/ TimerFire
  \/ \E id \in SessionIds : localStorage_setItem(id)
  \/ localStorage_removeItem

EndpointSpec == Init /\ [][EndpointNext]_vars

ConnNext ==
  \/ Mount
  \/ ManualConnect
  \/ \E s \in SockIds : ws_onopen(s)
  \/ \E s \in SockIds : ws_onerror(s)
  \/ \E s \in SockIds, code \in CloseCodes : ws_onclose(s, code)
  \/ TimerFire
  \/ disconnect
  \/ Render

ConnSpec == Init /\ [][ConnNext]_vars

\* the connection without manual connect() calls, and the outbound commands
SendNext ==
  \/ Mount
  \/ \E s \in SockIds : ws_onopen(s)
  \/ \E s \in SockIds : ws_onerror(s)
  \/ \E s \in SockIds, code \in CloseCodes : ws_onclose(s, code)
  \/ TimerFire
  \/ disconnect
  \/ Render
  \/ \E message \in OutboundCommands : sendMessage(message)

SendSpec == Init /\ [][SendNext]_vars

Next ==
  \/ ConnNext
  \/ \E s \in SockIds, data \in FrameTexts \cup InboundTexts : ws_onmessage(s, data)
  \/ TrackerEffect
  \/ \E message \in OutboundCommands : sendMessage(message)
  \/ createSession
  \/ \E ok \in BOOLEAN, session \in SessionIds : createSession_response(ok, session)
  \/ getSessions
  \/ \E ok \in BOOLEAN, list \in ServerLists : getSessions_response(ok, list)
  \/ getSession
  \/ \E ok \in BOOLEAN, session \in SessionIds : getSession_response(ok, session)
  \/ startTracking
  \/ \E ok \in BOOLEAN : startTracking_response(ok)
  \/ stopTracking
  \/ \E ok \in BOOLEAN : stopTracking_response(ok)
  \/ \E newSettings \in SettingsPartials : updateSettings(newSettings)
  \/ clearError
  \/ getAnalytics
  \/ \E ok \in BOOLEAN : getAnalytics_response(ok)
  \/ Unmount
  \/ handleStartTracking
  \/ \E i \in 1..MaxRequests, ok \in BOOLEAN : handleStartTracking_resume(i, ok)
  \/ handleStopTracking
  \/ \E i \in 1..MaxRequests, ok \in BOOLEAN : handleStopTracking_resume(i, ok)
  \/ \E id \in SessionIds : localStorage_setItem(id)
  \/ localStorage_removeItem

Spec == Init /\ [][Next]_vars

TypeOK ==
  /\ phase \in {"new", "mounted", "unmounted"}
  /\ socket \in SockIds \cup {NULL}
  /\ reconnectAttempts \in 0..AttemptCap
  /\ timers \in 0..MaxTimers
  /\ Len(wire) <= MaxSends
  /\ requests.issued \in 0..MaxRequests
  /\ state.isTracking \in BOOLEAN
  /\ state.currentSession \in SessionIds \cup {NULL}
  /\ localStorage \in SessionIds \cup {NULL}
  /\ sessionId \in SessionIds \cup {DefaultSessionId}
  /\ \A s \in SockIds : sockets[s].url \in SessionIds \cup {DefaultSessionId, NULL}

\* ------------------------------------------------------------- properties
RECURSIVE SumConfidence(_)
SumConfidence(seq) ==
  IF seq = <<>> THEN 0 ELSE Head(seq).confidence + SumConfidence(Tail(seq))

RECURSIVE CountSuccessful(_)
CountSuccessful(seq) ==
  IF seq = <<>> THEN 0
  ELSE (IF Head(seq).successful THEN 1 ELSE 0) + CountSuccessful(Tail(seq))

\* the Stats the specification requires after the events of seq
ExpectedStats(seq) ==
  [totalActions |-> Len(seq),
   successfulActions |-> CountSuccessful(seq),
   successRate |-> IF Len(seq) > 0 THEN Rat(CountSuccessful(seq) * 100, Len(seq))
                   ELSE RatOfInt(0),
   averageScore |-> IF Len(seq) > 0 THEN Rat(SumConfidence(seq), ConfScale * Len(seq))
                    ELSE RatOfInt(0)]

\* every handler, render and effect that was scheduled has run
Settled == rendered = Snapshot /\ ~effectPending

RateOf(st) ==
  IF st.totalActions > 0 THEN Rat(st.successfulActions * 100, st.totalActions)
  ELSE RatOfInt(0)

Connecting == {s \in SockIds : sockets[s].st = "connecting"}

\* C1: once every received ActionDetected event has been handled, Stats is
\* the aggregate of all N received events: totalActions = N,
\* successfulActions = s, successRate = s/N*100 (0 for N = 0) and
\* averageScore = mean of the confidences, whatever the timing of the events.
C1_FinalStatsAggregateAllEvents == Settled => stats = ExpectedStats(ingested)

\* C2: in every state, both in the store and in the snapshot the views read,
\* successRate = successfulActions/totalActions*100 when totalActions > 0 and
\* successRate = 0 when totalActions = 0.
C2_SuccessRateInvariant ==
  /\ stats.successRate = RateOf(stats)
  /\ rendered.stats.successRate = RateOf(rendered.stats)

C2_Witness ==
  /\ stats.totalActions = 3
  /\ stats.successfulActions = 2
  /\ stats.successRate = <<200, 3>>

\* C3: every step that changes any Stats field installs the complete
\* four-field snapshot computed for the handled event from one pre-event
\* snapshot; no step changes totalActions and leaves a derived field behind.
C3_StatsCommittedAsOneGroup ==
  [][stats' # stats =>
       stats' = StatsPayload(rendered.stats, rendered.lastMessage.successful,
                             rendered.lastMessage.confidence)]_vars

C3_Witness ==
  /\ last.op = "effect"
  /\ stats.totalActions = 2
  /\ stats.successfulActions = 1
  /\ stats.successRate = <<50, 1>>
  /\ stats.averageScore = <<3, 4>>

\* C4: at no point are two connection attempts (sockets in connecting state)
\* in flight at the same time.
C4_OneAttemptInFlight == Cardinality(Connecting) <= 1

\* C5: the number of automatic reconnect attempts scheduled since the last
\* successful open or manual connect() never exceeds MAX_RECONNECT_ATTEMPTS.
C5_ReconnectBound == scheduledSinceOpen <= MAX_RECONNECT_ATTEMPTS

\* C6: an abnormal close that happens when the reconnect-attempt counter has
\* reached the maximum sets a connectionError and schedules no reconnect.
C6_ExhaustionIsTerminal ==
  (last.op = "close" /\ last.code # NORMAL_CLOSURE
     /\ reconnectAttempts >= MAX_RECONNECT_ATTEMPTS)
    => (connectionError # NoError /\ ~last.sched)

\* C7: a manual connect() made when the counter had reached the maximum
\* resets the reconnect-attempt counter to 0.
C7_ManualConnectResetsCounter ==
  (last.op = "connect" /\ last.atMax) => reconnectAttempts = 0

\* C8: a close with the normal-closure code 1000 (the code disconnect()
\* requests) never schedules a reconnect timer, and when no caller has
\* invoked connect() nothing is left after it that could attempt to connect:
\* no timer is pending and no socket is alive.
C8_NormalClosureNeverReconnects ==
  (last.op = "close" /\ last.code = NORMAL_CLOSURE)
    => /\ ~last.sched
       /\ manualCalls = 0 =>
            (timers = 0 /\ \A s \in SockIds : sockets[s].st = "closed")

C8_Witness ==
  /\ last.op = "close"
  /\ last.req
  /\ last.code = NORMAL_CLOSURE
  /\ ~last.atMax
  /\ ~isConnected

\* C9: after disconnect() no reconnect timer is pending.
C9_DisconnectCancelsTimer == last.op = "disconnect" => timers = 0

\* C10: after disconnect() the manager is Disconnected: no socket is
\* connecting or open.
C10_DisconnectLeavesDisconnected ==
  last.op = "disconnect" => \A s \in SockIds : sockets[s].st \notin {"connecting", "open"}

\* the published state says connected and the channel it refers to is open,
\* for the closure that calls sendMessage
CallerConnected ==
  /\ rendered.isConnected
  /\ rendered.socket # NULL
  /\ sockets[rendered.socket].st = "open"

\* C11: a sendMessage call made while the connection state is not Connected
\* (isConnected is false) returns false and puts nothing on the wire.
C11_SendWhileNotConnectedFails ==
  (last.op = "send" /\ ~isConnected) => (~last.ok /\ last.after = last.before)

C13_ParseErrorChangesNothing ==
  [][last'.op = "parse_error" =>
       UNCHANGED <<phase, sockets, timers, socket, isConnected, reconnectAttempts,
                   lastMessage, connectionError, stats, rendered, effectPending,
                   msgCount, ingested, scheduledSinceOpen, manualCalls, wire,
                   delivery, state, requests>>]_vars

C13_Witness ==
  /\ last.op = "parse_error"
  /\ isConnected
  /\ sockets[socket].st = "open"
  /\ lastMessage.id = 2
  /\ lastMessage.type = "tracking_status"
  /\ msgCount < MaxEvents

\* C14: the published last event never has a type outside action_detected,
\* feedback, camera_status and tracking_status: a frame of another type is
\* not published.
C14_UnknownTypeNotPublished == lastMessage.type \in RecognizedTypes \cup {"none"}

\* C15: once every scheduled render and effect has run, the tracker has
\* handled every recognised frame that arrived, none skipped.
C15_EveryFrameDelivered == Settled => delivery.handled = delivery.arrived

\* the tracking state the store publishes: it has the boolean isTracking only
TrackingState == IF state.isTracking THEN "Active" ELSE "Idle"

\* C16: a startTracking() call made while the connection is not Connected or
\* while no current session is set issues no REST request.
C16_StartRejectedWithoutPreconditions ==
  (last.op = "startTracking" /\ (~isConnected \/ state.currentSession = NULL))
    => last.fetches = 0

\* C17: right after startTracking() was called from Idle with a current
\* session and an open connection, and while its request is in flight, the
\* tracking state is Starting.
C17_StartingWhileCallInFlight ==
  (last.op = "startTracking" /\ isConnected /\ state.currentSession # NULL
     /\ ~state.isTracking /\ requests.pending["startTracking"] > 0)
    => TrackingState = "Starting"

\* C18: after a failed startTracking the store is not tracking, after a
\* failed stopTracking it is still tracking, and in both cases error is set.
C18_FailedCallReverts ==
  /\ (last.op = "response" /\ last.of = "startTracking" /\ ~last.ok)
       => (~state.isTracking /\ state.error # NoError)
  /\ (last.op = "response" /\ last.of = "stopTracking" /\ ~last.ok)
       => (state.isTracking /\ state.error # NoError)

\* every reducer case but SET_TRACKING keeps the isTracking of st, for the
\* payloads of the runs
ReducerKeepsTracking(st) ==
  /\ \A b \in BOOLEAN : SET_LOADING(st, b).isTracking = st.isTracking
  /\ \A op \in Operations : SET_ERROR(st, ErrorMessage(op)).isTracking = st.isTracking
  /\ SET_ERROR(st, NoError).isTracking = st.isTracking
  /\ \A list \in ServerLists : SET_SESSIONS(st, list).isTracking = st.isTracking
  /\ \A session \in SessionIds :
       /\ SET_CURRENT_SESSION(st, session).isTracking = st.isTracking
       /\ CREATE_SESSION(st, session).isTracking = st.isTracking
  /\ \A partial \in SettingsPartials :
       UPDATE_SETTINGS(st, partial).isTracking = st.isTracking

\* C19: a step changes isTracking only when it is the continuation of a
\* startTracking or stopTracking call whose response was ok; inbound frames,
\* connection events, renders, effects and the other store operations leave
\* it as it is, and in every state every reducer case other than
\* SET_TRACKING would leave it as it is.
C19_OnlyTrackingCallsChangeTracking ==
  /\ [](ReducerKeepsTracking(state))
  /\ [][state'.isTracking # state.isTracking =>
          (last'.op = "response" /\ last'.of \in {"startTracking", "stopTracking"}
             /\ last'.ok)]_vars

C19_Witness ==
  /\ state.isTracking
  /\ last.op = "close"
  /\ stats.totalActions = 1
  /\ state.currentSession # NULL
  /\ state.settings.sensitivity = <<1, 2>>

\* C20: right after a successful startTracking the statistics are all zero.
C20_StatsResetOnStart ==
  (last.op = "response" /\ last.of = "startTracking" /\ last.ok)
    => stats = initialStats

\* the continuation of op has just run with response.ok = ok
Responded(op, ok) == last.op = "response" /\ last.of = op /\ last.ok = ok

\* C21: on a successful createSession the returned session becomes the
\* current session and the first entry of the list, and the rest of the list
\* is the previous list in the same order.
C21_CreatedSessionIsCurrentAndFirst ==
  [][\A session \in SessionIds :
       createSession_response(TRUE, session) =>
         /\ state'.currentSession = session
         /\ Head(state'.sessions) = session
         /\ Tail(state'.sessions) = state.sessions]_vars

\* a session was created in front of a list of two different sessions
C21_Witness ==
  /\ Responded("createSession", TRUE)
  /\ Len(state.sessions) = 3
  /\ state.sessions[2] # state.sessions[3]
  /\ state.currentSession = state.sessions[1]

\* C22: a failed createSession sets the error and leaves currentSession,
\* sessions, isTracking, settings and stats as they were: neither the call
\* nor the continuation changes them.
C22_FailedCreateLeavesStore ==
  [][/\ (\E session \in SessionIds : createSession_response(FALSE, session)) =>
          state'.error = ErrorMessage("createSession")
     /\ (createSession \/ \E session \in SessionIds : createSession_response(FALSE, session)) =>
          /\ state'.currentSession = state.currentSession
          /\ state'.sessions = state.sessions
          /\ state'.isTracking = state.isTracking
          /\ state'.settings = state.settings
          /\ stats' = stats]_vars

\* a createSession failed in a store that has a current session, a list and
\* changed settings
C22_Witness ==
  /\ Responded("createSession", FALSE)
  /\ state.error = ErrorMessage("createSession")
  /\ state.currentSession # NULL
  /\ state.sessions # <<>>
  /\ state.settings # initialState.settings

\* C23: a successful getSessions replaces the cached list by the list of the
\* server and leaves currentSession, isTracking, settings and stats as they
\* were.
C23_ListReplacedWholesale ==
  [][\A list \in ServerLists :
       getSessions_response(TRUE, list) =>
         /\ state'.sessions = list
         /\ state'.currentSession = state.currentSession
         /\ state'.isTracking = state.isTracking
         /\ state'.settings = state.settings
         /\ stats' = stats]_vars

\* the list of the server took the place of a list that held the current
\* session: that entry did not survive
C23_Witness ==
  /\ Responded("getSessions", TRUE)
  /\ state.currentSession # NULL
  /\ Len(state.sessions) = 1
  /\ state.sessions[1] # state.currentSession

\* C24: a successful getSession makes the returned session the current one,
\* in the place of the previous one, and leaves the list as it was.
C24_FetchedSessionIsCurrent ==
  [][\A session \in SessionIds :
       getSession_response(TRUE, session) =>
         /\ state'.currentSession = session
         /\ state'.sessions = state.sessions]_vars

\* the fetched session took the place of the session created before, which
\* is still the only entry of the list
C24_Witness ==
  /\ Responded("getSession", TRUE)
  /\ state.currentSession # NULL
  /\ state.sessions # <<>>
  /\ \A i \in 1..Len(state.sessions) : state.sessions[i] # state.currentSession
  /\ requests.pending["getSessions"] = 1

\* new is old with the keys of partial merged in: the keys of partial have
\* the values of partial, the other keys keep theirs, and no key is lost
ShallowMerged(old, new, partial) ==
  /\ DOMAIN new = DOMAIN old \cup DOMAIN partial
  /\ \A k \in DOMAIN partial : new[k] = partial[k]
  /\ \A k \in DOMAIN old \ DOMAIN partial : new[k] = old[k]

\* C25: updateSettings(partial) shallow-merges partial into the settings,
\* and applying the same partial a second time changes nothing.
C25_SettingsShallowMerge ==
  /\ [](\A partial \in MergePartials :
          /\ ShallowMerged(state.settings, UPDATE_SETTINGS(state, partial).settings, partial)
          /\ UPDATE_SETTINGS(UPDATE_SETTINGS(state, partial), partial)
               = UPDATE_SETTINGS(state, partial))
  /\ [][\A partial \in MergePartials :
          updateSettings(partial) =>
            /\ ShallowMerged(state.settings, state'.settings, partial)
            /\ UPDATE_SETTINGS(state', partial) = state']_vars

\* partials were merged: a new key is there, a key was overwritten, and the
\* keys no partial named are as they were
C25_Witness ==
  /\ last.op = "updateSettings"
  /\ "fps" \in DOMAIN state.settings
  /\ state.settings.sensitivity = <<1, 2>>
  /\ state.settings.feedbackTypes = <<"audio">>
  /\ state.settings.minConfidence = initialState.settings.minConfidence
  /\ state.settings.cameraSource = initialState.settings.cameraSource

\* C26: the onopen handler sets isConnected, puts reconnectAttempts back to
\* 0 and clears connectionError, all in its one step.
C26_OpenResetsConnection ==
  [][\A s \in SockIds :
       ws_onopen(s) =>
         /\ isConnected'
         /\ reconnectAttempts' = 0
         /\ connectionError' = NoError]_vars

\* a reconnect opened: the last render still shows the counter above 0
C26_Witness ==
  /\ last.op = "open"
  /\ rendered.reconnectAttempts > 0
  /\ ~rendered.isConnected
  /\ isConnected
  /\ reconnectAttempts = 0
  /\ connectionError = NoError

\* C28: the onerror handler sets connectionError and nothing else: the socket
\* is not closed by it, isConnected, socket and reconnectAttempts keep their
\* values and no timer is scheduled.
C28_ErrorOnlySetsConnectionError ==
  [][\A s \in SockIds :
       ws_onerror(s) =>
         /\ connectionError' = ErrFailed
         /\ sockets'[s].st \notin {"closing", "closed"}
         /\ UNCHANGED <<isConnected, socket, reconnectAttempts, timers,
                        scheduledSinceOpen>>]_vars

\* an error on the open socket: the provider still reports the connection
C28_Witness ==
  /\ last.op = "error"
  /\ connectionError = ErrFailed
  /\ isConnected
  /\ socket # NULL
  /\ sockets[socket].st = "errored"
  /\ timers = 0

\* C27: once the provider is unmounted no reconnect timer is pending and no
\* socket of the provider is connecting or open.
C27_TeardownReleasesTimersAndSocket ==
  phase = "unmounted" =>
    /\ timers = 0
    /\ \A s \in SockIds : sockets[s].st \notin {"connecting", "open", "errored"}

\* C29: every connect(), of the mount effect, of a consumer or of a reconnect
\* timer, creates its socket for the session id that is stored when it runs.
C29_ConnectUsesStoredSessionId ==
  [][\A s \in SockIds :
       (sockets[s].st = "closed" /\ sockets'[s].st = "connecting" /\ localStorage # NULL)
         => sockets'[s].url = localStorage]_vars

\* a reconnect timer connected to the id stored since the first render,
\* which had read another stored id
C29_Witness ==
  /\ last.op = "timer"
  /\ localStorage # NULL
  /\ sessionId \notin {DefaultSessionId, localStorage}
  /\ \E s \in SockIds : sockets[s].st = "connecting" /\ sockets[s].url = localStorage

\* a startTracking or stopTracking request is in flight
TrackingCallInFlight ==
  requests.pending["startTracking"] + requests.pending["stopTracking"] > 0

\* C30: an action_detected event handled while a startTracking or
\* stopTracking request is in flight is added to the stats as the next event
\* after those handled before, and the continuation of such a request
\* changes isTracking or error (with loading) and nothing else: stats,
\* sessions, currentSession, settings and selectedSport stay as they were.
C30_EventsAndTrackingCallsInterleave ==
  [][/\ (TrackerEffect /\ TrackingCallInFlight
           /\ rendered.lastMessage.type = "action_detected") =>
          /\ stats'.totalActions = stats.totalActions + 1
          /\ stats'.successfulActions =
               stats.successfulActions + (IF rendered.lastMessage.successful THEN 1 ELSE 0)
          /\ stats'.successRate = RateOf(stats')
          /\ stats'.averageScore =
               NextAverage(stats.averageScore, stats.totalActions,
                           rendered.lastMessage.confidence, stats'.totalActions)
          /\ stats'.totalActions <= Len(ingested)
          /\ state' = state
     /\ (\E ok \in BOOLEAN : startTracking_response(ok) \/ stopTracking_response(ok)) =>
          /\ stats' = stats
          /\ \A f \in DOMAIN state \ {"isTracking", "error", "loading"} :
               state'[f] = state[f]]_vars

\* the event was handled before the acknowledgment of startTracking arrived
C30_Witness ==
  /\ last.op = "effect"
  /\ requests.pending["startTracking"] > 0
  /\ ~state.isTracking
  /\ stats.totalActions = 1
  /\ stats.averageScore = RatOfInt(1)

\* C31: a call of a provider function that uses fetch() issues exactly one
\* request; its continuation issues none, and on a response that is not ok
\* it sets error to the message of the function and throws the error to the
\* caller.  No other step issues a request.
C31_OneRequestPerCallNoRetry ==
  [][/\ last'.op \in Operations \cup {"mount"} =>
          /\ requests'.issued = requests.issued + 1
          /\ \A op \in Operations :
               requests'.pending[op] =
                 requests.pending[op]
                   + (IF op = (IF last'.op = "mount" THEN "getSessions" ELSE last'.op)
                        THEN 1 ELSE 0)
     /\ last'.op = "response" =>
          /\ requests'.issued = requests.issued
          /\ \A op \in Operations :
               requests'.pending[op] =
                 requests.pending[op] - (IF op = last'.of THEN 1 ELSE 0)
          /\ last'.rethrown = ~last'.ok
          /\ ~last'.ok => state'.error = ErrorMessage(last'.of)
     /\ requests'.issued # requests.issued => last'.op \in Operations \cup {"mount"}]_vars

\* getAnalytics failed after the list of the mount effect had loaded: the
\* error is set and no request is in flight
C31_Witness ==
  /\ Responded("getAnalytics", FALSE)
  /\ last.rethrown
  /\ state.error = ErrorMessage("getAnalytics")
  /\ state.sessions # <<>>
  /\ \A op \in Operations : requests.pending[op] = 0

\* C32: the reconnect-attempt counter, in the state and in the values the
\* last render handed out, is within 0..MAX_RECONNECT_ATTEMPTS.
C32_CounterWithinMaximum ==
  /\ reconnectAttempts \in 0..MAX_RECONNECT_ATTEMPTS
  /\ rendered.reconnectAttempts \in 0..MAX_RECONNECT_ATTEMPTS

\* the WebSocket objects of the provider that are open
OpenSockets == {s \in SockIds : sockets[s].st = "open"}

\* C33: whenever a socket of the provider is open, isConnected is true and
\* `socket` refers to an open socket.
C33_PublishedStateAgreesWithSockets ==
  OpenSockets # {} => (isConnected /\ socket \in OpenSockets)

\* the createSession, getSessions and getSession requests in flight
LoadingCallsInFlight ==
  requests.pending["createSession"] + requests.pending["getSessions"]
    + requests.pending["getSession"]

\* C34: when no createSession, getSessions or getSession request is in
\* flight, loading is false.
C34_LoadingOnlyWhileInFlight == LoadingCallsInFlight = 0 => ~state.loading

\* C35: the session created last (the current session) is in the list,
\* whatever the response to the getSessions() of the mount effect holds and
\* whenever it arrives.
C35_CreatedSessionStaysListed ==
  state.currentSession # NULL =>
    \E i \in 1..Len(state.sessions) : state.sessions[i] = state.currentSession

\* C36: at most one startTracking or stopTracking request is in flight.
C36_OneTrackingCallInFlight ==
  requests.pending["startTracking"] + requests.pending["stopTracking"] <= 1

\* the counters and the rate of st are in range
StatsInRange(st) ==
  /\ 0 <= st.successfulActions
  /\ st.successfulActions <= st.totalActions
  /\ 0 <= st.successRate[1]
  /\ st.successRate[2] > 0
  /\ st.successRate[1] <= 100 * st.successRate[2]

\* C37: in every state 0 <= successfulActions <= totalActions and
\* 0 <= successRate <= 100, in the store and in the values of the last
\* render, and no step makes totalActions smaller.
C37_StatsInRangeAndMonotonic ==
  /\ [](StatsInRange(stats) /\ StatsInRange(rendered.stats))
  /\ [][stats'.totalActions >= stats.totalActions]_vars

\* three events were handled, one of them successful
C37_Witness ==
  /\ last.op = "effect"
  /\ stats.totalActions = 3
  /\ stats.successfulActions = 1
  /\ stats.successRate = <<100, 3>>

\* C39: the counters of the tracker view agree with the stats of the store:
\* sessionActions = totalActions and sessionSuccesses = successfulActions.
C39_LocalCountersAgreeWithStats ==
  /\ performanceData.sessionActions = stats.totalActions
  /\ performanceData.sessionSuccesses = stats.successfulActions

\* three events were handled, two of them successful
C39_Witness ==
  /\ last.op = "effect"
  /\ performanceData.sessionActions = 3
  /\ performanceData.sessionSuccesses = 2
  /\ stats.totalActions = 3

CameraCommand(action) == JSON_stringify([type |-> "camera_control", action |-> action])

\* C38: a text goes on the wire only in the continuation of the tracker's
\* handleStartTracking or handleStopTracking after a response that was ok,
\* and it is camera_control start for the former, with the store tracking,
\* and camera_control stop for the latter, with the store not tracking; a
\* continuation after a failed response sends nothing.
C38_CameraControlFollowsRestOutcome ==
  [][wire' # wire =>
       /\ last'.op = "response"
       /\ last'.ok
       /\ \/ /\ last'.of = "handleStartTracking"
             /\ wire' = Append(wire, CameraCommand("start"))
             /\ state'.isTracking
          \/ /\ last'.of = "handleStopTracking"
             /\ wire' = Append(wire, CameraCommand("stop"))
             /\ ~state'.isTracking]_vars

\* the start command was sent after startTracking succeeded
C38_Witness ==
  /\ Responded("handleStartTracking", TRUE)
  /\ state.isTracking
  /\ wire = <<CameraCommand("start")>>

====
